---- MODULE Spec2Model ----
(***************************************************************************)
(* A model of app.py, the AI Automated Feedback System: a Streamlit script *)
(* that is rerun top to bottom on every interaction.  It holds             *)
(*   - process_review, the model-fallback loop around the generative API,  *)
(*   - the User Dashboard submit handler, which appends a row to           *)
(*     reviews.csv by read_csv / concat / to_csv,                          *)
(*   - the Admin Dashboard, which reads reviews.csv, computes three        *)
(*     metrics and renders the feed sorted by timestamp, newest first.     *)
(***************************************************************************)
EXTENDS Integers, Sequences, FiniteSets, TLC

VARIABLES
    db,        \* reviews.csv: [exists, header, rows], every cell a string
    clock,     \* the wall clock read by pd.Timestamp.now()
    outcomes,  \* what the remote API does for each identifier, in list order
    ai,        \* the process_review call under study: its return and effects
    ui,        \* what the last User Dashboard run built and displayed
    admin,     \* what the last Admin Dashboard run displayed
    pc,        \* per session: position inside the submit handler
    local,     \* per session: new_data and existing_data of the handler
    hist       \* history: the submissions whose save step succeeded, in order

vars == <<db, clock, outcomes, ai, ui, admin, pc, local, hist>>

------------------------------------------------------------------------------
(* Bounds of the model.                                                    *)

\* The clock stops here: at most MaxClock submissions take a timestamp.
MaxClock == 3
\* The longest stored table the Admin Dashboard is applied to.
MaxRows == 3

------------------------------------------------------------------------------
(* Python values: None, str, list and dict, as far as the code tells them  *)
(* apart.  d is the dict's content, a function from its keys.              *)

PyNone == [ty |-> "None", s |-> "", d |-> <<>>]
PyStr(x) == [ty |-> "str", s |-> x, d |-> <<>>]
PyList == [ty |-> "list", s |-> "[]", d |-> <<>>]
PyDict(f) == [ty |-> "dict", s |-> "", d |-> f]

MODEL_FALLBACK_LIST ==
    << "models/gemini-2.0-flash",
       "models/gemini-2.0-flash-lite-preview-02-05",
       "models/gemini-2.5-flash" >>

------------------------------------------------------------------------------
(* The text of a response, as a sequence of lexical pieces: a Markdown     *)
(* fence, the word json   that may follow it, whitespace, prose, and one *)
(* JSON value (with the Python value json.loads gives for it).             *)

Fence == [t |-> "fence", v |-> PyNone]
JsonWord == [t |-> "json", v |-> PyNone]
Ws == [t |-> "ws", v |-> PyNone]
Prose == [t |-> "prose", v |-> PyNone]
JsonValue(v) == [t |-> "value", v |-> v]

RECURSIVE Replace(_, _)
\* str.replace(pat, ""): every occurrence of pat, left to right, removed.
Replace(text, pat) ==
    IF Len(text) < Len(pat) THEN text
    ELSE IF SubSeq(text, 1, Len(pat)) = pat
         THEN Replace(SubSeq(text, Len(pat) + 1, Len(text)), pat)
         ELSE <<Head(text)>> \o Replace(Tail(text), pat)

RECURSIVE LStrip(_)
LStrip(text) ==
    IF text # <<>> /\ Head(text) = Ws THEN LStrip(Tail(text)) ELSE text

RECURSIVE RStrip(_)
RStrip(text) ==
    IF text # <<>> /\ text[Len(text)] = Ws
    THEN RStrip(SubSeq(text, 1, Len(text) - 1)) ELSE text

\* str.strip()
Strip(text) == RStrip(LStrip(text))

\* The mutation of CleanText that removes the bare fences first.
CleanTextFenceFirst(text) ==
    Strip(Replace(Replace(text, <<Fence>>), <<Fence, JsonWord>>))

\* response.text, with the fence-json pairs removed, then the fences left,
\* then the whitespace at both ends (replace, replace, strip).
CleanText(text) == Strip(Replace(Replace(text, <<Fence, JsonWord>>), <<Fence>>))

\* json.loads: the text must be exactly one JSON value, whitespace around
\* it allowed; anything else raises JSONDecodeError.
json_loads(text) ==
    LET solid == SelectSeq(text, LAMBDA tok : tok # Ws)
    IN  IF Len(solid) = 1 /\ solid[1].t = "value"
        THEN [ok |-> TRUE, value |-> solid[1].v]
        ELSE [ok |-> FALSE, value |-> PyNone]

\* result[key] = val on a dict.
SetItem(dct, key, val) ==
    PyDict([k \in DOMAIN dct.d \cup {key} |-> IF k = key THEN val ELSE dct.d[k]])

\* dict.get(key, default)
Get(dct, key, default) == IF key \in DOMAIN dct.d THEN dct.d[key] ELSE default

------------------------------------------------------------------------------
(* process_review.                                                         *)

NoError == [type |-> "None", at |-> 0]
Error(type, i) == [type |-> type, at |-> i]

\* The mutation of Fallback that names a model, as a successful return does.
FallbackWithModel ==
    PyDict([k \in {"summary", "action", "reply", "model_used"} |->
        CASE k = "summary" -> PyStr("System Busy")
          [] k = "action"  -> PyStr("Manual Review")
          [] k = "reply"   ->
                PyStr("Thank you for your feedback! (AI currently overloaded)")
          [] k = "model_used" -> PyStr(MODEL_FALLBACK_LIST[3])])

\* The dict returned after the loop, when no identifier succeeded.
Fallback ==
    PyDict([k \in {"summary", "action", "reply"} |->
        CASE k = "summary" -> PyStr("System Busy")
          [] k = "action"  -> PyStr("Manual Review")
          [] k = "reply"   ->
                PyStr("Thank you for your feedback! (AI currently overloaded)")])

\* The body of the try block for the i-th identifier, given what the API
\* does for it: generate_content or response.text raises, or text comes
\* back, is cleaned and parsed, and the identifier is stored in the result.
\* Storing it raises TypeError unless the parsed value is a dict.
TryModel(i, outcome) ==
    IF outcome.raises
    THEN [ok |-> FALSE, result |-> PyNone, err |-> Error("GenerationError", i)]
    ELSE LET parsed == json_loads(CleanText(outcome.text))
         IN  IF ~parsed.ok
             THEN [ok |-> FALSE, result |-> PyNone,
                   err |-> Error("JSONDecodeError", i)]
             ELSE IF parsed.value.ty # "dict"
             THEN [ok |-> FALSE, result |-> PyNone, err |-> Error("TypeError", i)]
             ELSE [ok |-> TRUE,
                   result |-> SetItem(parsed.value, "model_used",
                                      PyStr(MODEL_FALLBACK_LIST[i])),
                   err |-> NoError]

\* except Exception as e: last_error = e
Except(last_error, err) == err

\* The mutation of the loop's step that tries the same identifier again.
NextModelRetry(i, attempted) ==
    IF Len(SelectSeq(attempted, LAMBDA m : m = MODEL_FALLBACK_LIST[i])) < 2
    THEN i ELSE i + 1

\* for model_name in MODEL_FALLBACK_LIST: the iteration after a failure.
NextModel(i, attempted) == i + 1

RECURSIVE Loop(_, _, _, _)
\* The for loop from its i-th iteration on.  The return holds the result,
\* the identifiers tried, last_error, and the st.error calls made.
Loop(outs, i, last_error, attempted) ==
    IF i > Len(MODEL_FALLBACK_LIST)
    THEN [result |-> Fallback, attempted |-> attempted,
          last_error |-> last_error, st_error |-> <<last_error>>]
    ELSE LET r == TryModel(i, outs[i])
             tried == Append(attempted, MODEL_FALLBACK_LIST[i])
         IN  IF r.ok
             THEN [result |-> r.result, attempted |-> tried,
                   last_error |-> last_error, st_error |-> <<>>]
             ELSE Loop(outs, NextModel(i, tried), Except(last_error, r.err), tried)

\* The prompt goes to the remote model only; what comes back is outs.
process_review(outs) == Loop(outs, 1, NoError, <<>>)

------------------------------------------------------------------------------
(* What the remote API may do for one identifier.                          *)

Obj(summary, action, reply) ==
    PyDict([k \in {"summary", "action", "reply"} |->
        CASE k = "summary" -> summary
          [] k = "action"  -> action
          [] k = "reply"   -> reply])

FullObj == Obj(PyStr("Late delivery"), PyStr("Issue Refund"), PyStr("We are sorry."))
NullSummaryObj == Obj(PyNone, PyStr("Issue Refund"), PyStr("We are sorry."))
SelfNamedObj ==
    PyDict([k \in {"summary", "action", "reply", "model_used"} |->
        IF k = "model_used" THEN PyStr("gemini") ELSE FullObj.d[k]])
EmptyObj == PyDict(<<>>)

Bare(v) == <<JsonValue(v)>>
Fenced(v) == <<Fence, JsonWord, Ws, JsonValue(v), Ws, Fence>>
PlainFenced(v) == <<Fence, Ws, JsonValue(v), Ws, Fence>>

Texts ==
    { Fenced(FullObj), Bare(FullObj), PlainFenced(SelfNamedObj),
      Bare(NullSummaryObj), Bare(EmptyObj), Bare(PyList),
      <<Prose>>, <<Prose, Ws>> \o Fenced(FullObj) }

Outcomes ==
    {[raises |-> TRUE, text |-> <<>>]} \cup {[raises |-> FALSE, text |-> t] : t \in Texts}

OutcomeSeqs == [1..Len(MODEL_FALLBACK_LIST) -> Outcomes]

------------------------------------------------------------------------------
(* reviews.csv and pandas.  The file is a header line and rows of strings; *)
(* a DataFrame is its column names and rows of typed cells.                *)

DB_COLUMNS == <<"rating", "review", "summary", "action", "reply", "timestamp">>

\* st.slider("Rating (1-5)", 1, 5, 5)
RATING_MIN == 1
RATING_MAX == 5
Ratings == RATING_MIN..RATING_MAX

Absent == [exists |-> FALSE, header |-> <<>>, rows |-> <<>>]

CInt(n) == [ty |-> "int", s |-> "", n |-> n]
CStr(x) == [ty |-> "str", s |-> x, n |-> 0]
CNaN == [ty |-> "NaN", s |-> "", n |-> 0]
CNone == [ty |-> "None", s |-> "", n |-> 0]
CTimestamp(t) == [ty |-> "Timestamp", s |-> "", n |-> t]

\* The instants of the model, one decimal digit each.
Instants == 0..9

\* str(pd.Timestamp): a fixed-width ISO date and time, so that the order of
\* the strings is the order of the instants.
TimestampText(t) == "2025-01-01 10:00:0" \o ToString(t)

\* The text to_csv writes for one cell: NaN and None are written as the empty field.
CellText(c) ==
    CASE c.ty = "int" -> ToString(c.n)
      [] c.ty = "str" -> c.s
      [] c.ty = "Timestamp" -> TimestampText(c.n)
      [] OTHER -> ""

\* df.to_csv(DB_FILE, index=False): the file is replaced as a whole.
to_csv(df) ==
    [exists |-> TRUE, header |-> df.columns,
     rows |-> [i \in 1..Len(df.rows) |->
                 [j \in 1..Len(df.columns) |-> CellText(df.rows[i][df.columns[j]])]]]

\* The fields read_csv takes for missing values (the default na_values of pandas).
NA_VALUES ==
    {"", "#N/A", "#N/A N/A", "#NA", "-1.#IND", "-1.#QNAN", "-NaN", "-nan",
     "1.#IND", "1.#QNAN", "<NA>", "N/A", "NA", "NULL", "NaN", "n/a", "nan", "null"}

DigitTexts == {ToString(n) : n \in Instants}
ParseInt(x) == CHOOSE n \in Instants : ToString(n) = x

\* read_csv infers a column of integers when every field is one; otherwise
\* the column holds strings, with NaN for the fields in NA_VALUES.  (The
\* rating column is written from the integer of the slider and never has a NaN.)
ParseColumn(fields) ==
    IF fields # <<>> /\ \A i \in 1..Len(fields) : fields[i] \in DigitTexts
    THEN [i \in 1..Len(fields) |-> CInt(ParseInt(fields[i]))]
    ELSE [i \in 1..Len(fields) |->
            IF fields[i] \in NA_VALUES THEN CNaN ELSE CStr(fields[i])]

\* pd.read_csv(DB_FILE)
read_csv(file) ==
    LET n == Len(file.rows)
        w == Len(file.header)
        cols == [j \in 1..w |-> ParseColumn([i \in 1..n |-> file.rows[i][j]])]
        at == [c \in {file.header[j] : j \in 1..w} |->
                  CHOOSE j \in 1..w : file.header[j] = c]
    IN  [columns |-> file.header,
         rows |-> [i \in 1..n |-> [c \in DOMAIN at |-> cols[at[c]][i]]]]

\* df.empty
IsEmpty(df) == Len(df.rows) = 0 \/ Len(df.columns) = 0

ColumnSet(df) == {df.columns[j] : j \in 1..Len(df.columns)}

\* A row over more columns: the cells it lacks are NaN.
Reindex(row, columns) ==
    [c \in {columns[j] : j \in 1..Len(columns)} |->
        IF c \in DOMAIN row THEN row[c] ELSE CNaN]

\* The mutation of concat that puts the new frame first.
concat_new_first(a, b) ==
    LET columns == b.columns \o SelectSeq(a.columns, LAMBDA c : c \notin ColumnSet(b))
    IN  [columns |-> columns,
         rows |-> [i \in 1..Len(b.rows) |-> Reindex(b.rows[i], columns)]
                  \o [i \in 1..Len(a.rows) |-> Reindex(a.rows[i], columns)]]

\* pd.concat([a, b], ignore_index=True): the columns of a, then those only
\* b has; the rows of a, then the rows of b.
concat(a, b) ==
    LET columns == a.columns \o SelectSeq(b.columns, LAMBDA c : c \notin ColumnSet(a))
    IN  [columns |-> columns,
         rows |-> [i \in 1..Len(a.rows) |-> Reindex(a.rows[i], columns)]
                  \o [i \in 1..Len(b.rows) |-> Reindex(b.rows[i], columns)]]

\* if not os.path.exists(DB_FILE): write the header alone.  Run at the top
\* of the script, so at the start of every interaction.
Startup(file) ==
    IF ~file.exists THEN to_csv([columns |-> DB_COLUMNS, rows |-> <<>>]) ELSE file

------------------------------------------------------------------------------
(* The User Dashboard.                                                     *)

\* What a user may type; the empty text is falsy and is not submitted.
ReviewTexts == {"", "Great app"}

\* The ratings submitted in the model: the two ends of the slider.
SliderValues == {RATING_MIN, RATING_MAX}

\* Every dict process_review can return, over all the API can do.
AIResults == {process_review(outs).result : outs \in OutcomeSeqs}

\* The cell pandas holds for a value of the result dict.
FromPy(v) == IF v.ty = "None" THEN CNone ELSE CStr(v.s)

\* new_data: the one-row frame built from the form and the AI result.
NewData(stars, review_text, ai_result, now) ==
    [columns |-> DB_COLUMNS,
     rows |-> << [c \in {"rating", "review", "summary", "action", "reply", "timestamp"} |->
        CASE c = "rating"    -> CInt(stars)
          [] c = "review"    -> CStr(review_text)
          [] c = "summary"   -> FromPy(Get(ai_result, "summary", PyStr("N/A")))
          [] c = "action"    -> FromPy(Get(ai_result, "action", PyStr("N/A")))
          [] c = "reply"     -> FromPy(Get(ai_result, "reply", PyStr("Thank you!")))
          [] c = "timestamp" -> CTimestamp(now)] >>]

\* The mutation of the save step that reads the file again when it writes.
SavedFileReread(existing_data, new_data, file) ==
    to_csv(concat(read_csv(file), new_data))

\* updated_data = pd.concat([existing_data, new_data]); updated_data.to_csv:
\* the file is replaced by the table read earlier plus the new row, whatever
\* the file holds by now.
SavedFile(existing_data, new_data, file) == to_csv(concat(existing_data, new_data))

NoFrame == [columns |-> <<>>, rows |-> <<>>]
NoRun == [status |-> "none", new_data |-> NoFrame]
NotShown == [status |-> "none", total |-> 0, avg |-> [num |-> 0, den |-> 1],
             negative |-> 0, feed |-> <<>>, info |-> FALSE]
Saved(stars, now) == [rating |-> stars, timestamp |-> now]

\* One run of the script with the User Dashboard selected, alone: start-up
\* and the form; nothing more unless the form is submitted with text, and
\* then the AI call, the new row and the save step, whose file access
\* either works or raises.
UserDashboard ==
    LET file == Startup(db)
        existing_data == read_csv(file)
    IN  /\ \/ /\ \E submitted \in BOOLEAN, review_text \in ReviewTexts :
                    ~(submitted /\ review_text # "")
              /\ db' = file
              /\ ui' = NoRun
              /\ UNCHANGED <<clock, hist>>
           \/ /\ clock < MaxClock
              /\ clock' = clock + 1
              /\ \E stars \in SliderValues, review_text \in ReviewTexts,
                    ai_result \in AIResults, io_ok \in BOOLEAN :
                    LET new_data == NewData(stars, review_text, ai_result, clock + 1)
                    IN  /\ review_text # ""
                        /\ IF io_ok
                           THEN /\ db' = SavedFile(existing_data, new_data, file)
                                /\ ui' = [status |-> "success", new_data |-> new_data]
                                /\ hist' = Append(hist, Saved(stars, clock + 1))
                           ELSE /\ db' = file
                                /\ ui' = [status |-> "save_error", new_data |-> new_data]
                                /\ hist' = hist
        /\ admin' = NotShown
        /\ UNCHANGED <<outcomes, ai, pc, local>>

------------------------------------------------------------------------------
(* The Admin Dashboard.                                                    *)

RECURSIVE SumRatings(_, _)
SumRatings(df, n) == IF n = 0 THEN 0 ELSE df.rows[n]["rating"].n + SumRatings(df, n - 1)

\* df[rating].mean(), as the exact fraction num / den.
Mean(df) == [num |-> SumRatings(df, Len(df.rows)), den |-> Len(df.rows)]

\* The mutation of the negative-review filter that also counts rating 3.
NegativeUpTo3(df) == Cardinality({i \in 1..Len(df.rows) : df.rows[i]["rating"].n <= 3})

\* len(df[df[rating] < 3])
Negative(df) == Cardinality({i \in 1..Len(df.rows) : df.rows[i]["rating"].n < 3})

\* The instant a timestamp string of the file stands for: the strings are
\* compared as text, which for this format is the order of the instants.
InstantOf(x) == CHOOSE t \in Instants : TimestampText(t) = x
SortKey(df, i) == InstantOf(df.rows[i]["timestamp"].s)

\* The orders of n row labels, tabulated for the table lengths of the model.
LongestTable == IF MaxClock > MaxRows THEN MaxClock ELSE MaxRows
AllRowOrders ==
    [n \in 0..LongestTable |->
        {p \in [1..n -> 1..n] : \A i, j \in 1..n : i # j => p[i] # p[j]}]
RowOrders(n) == AllRowOrders[n]

\* The mutation of sort_values that sorts oldest first.
sort_values_ascending(df) ==
    LET key == [i \in 1..Len(df.rows) |-> SortKey(df, i)]
    IN  {p \in RowOrders(Len(df.rows)) :
            \A i, j \in 1..Len(df.rows) : i < j => key[p[i]] <= key[p[j]]}

\* df.sort_values(by=timestamp, ascending=False): the orders of the row
\* labels it may give, any order being allowed among equal timestamps.
sort_values(df) ==
    LET key == [i \in 1..Len(df.rows) |-> SortKey(df, i)]
    IN  {p \in RowOrders(Len(df.rows)) :
            \A i, j \in 1..Len(df.rows) : i < j => key[p[i]] >= key[p[j]]}

\* str() of a cell, as the f-strings of the feed print it.
Str(c) ==
    CASE c.ty = "int" -> ToString(c.n)
      [] c.ty = "str" -> c.s
      [] c.ty = "NaN" -> "nan"
      [] OTHER -> "None"

\* One expander of the live feed.
Expander(df, i) ==
    [index |-> i,
     rating |-> Str(df.rows[i]["rating"]),
     review |-> Str(df.rows[i]["review"]),
     summary |-> Str(df.rows[i]["summary"]),
     action |-> Str(df.rows[i]["action"]),
     time |-> Str(df.rows[i]["timestamp"])]

\* One run of the script with the Admin Dashboard selected: start-up, the
\* read, the three metrics, and the feed or the empty-state message.
AdminDashboard ==
    \E io_ok \in BOOLEAN :
        LET file == Startup(db)
            df == read_csv(file)
        IN  /\ db' = file
            /\ IF ~io_ok
               THEN admin' = [NotShown EXCEPT !.status = "read_error"]
               ELSE \E order \in (IF "timestamp" \in ColumnSet(df)
                                  THEN sort_values(df)
                                  ELSE {[i \in 1..Len(df.rows) |-> i]}) :
                       admin' =
                        [status |-> "shown",
                         total |-> Len(df.rows),
                         avg |-> IF ~IsEmpty(df) THEN Mean(df) ELSE [num |-> 0, den |-> 1],
                         negative |-> IF ~IsEmpty(df) THEN Negative(df) ELSE 0,
                         feed |-> IF ~IsEmpty(df)
                                  THEN [k \in 1..Len(df.rows) |-> Expander(df, order[k])]
                                  ELSE <<>>,
                         info |-> IsEmpty(df)]
            /\ ui' = NoRun
            /\ UNCHANGED <<clock, outcomes, ai, pc, local, hist>>

------------------------------------------------------------------------------
(* One process_review call, for every behaviour of the API.                *)

NoOutcomes == <<>>
Pending == [state |-> "pending", result |-> PyNone, attempted |-> <<>>,
            last_error |-> NoError, st_error |-> <<>>]

ProcessReviewCall ==
    /\ ai.state = "pending"
    /\ outcomes # NoOutcomes
    /\ LET ret == process_review(outcomes)
       IN  ai' = [state |-> "returned", result |-> ret.result,
                  attempted |-> ret.attempted, last_error |-> ret.last_error,
                  st_error |-> ret.st_error]
    /\ UNCHANGED <<db, clock, outcomes, ui, admin, pc, local, hist>>

------------------------------------------------------------------------------
(* Two browser sessions, each submitting one review, at once.  Streamlit   *)
(* runs the script of each session in its own thread; the file accesses of *)
(* the two interleave.                                                     *)

Sessions == {"A", "B"}

Idle == [seen |-> FALSE, new_data |-> NoFrame, existing_data |-> NoFrame,
         status |-> "none"]

\* os.path.exists(DB_FILE)
Check(s) ==
    /\ pc[s] = "idle"
    /\ pc' = [pc EXCEPT ![s] = "checked"]
    /\ local' = [local EXCEPT ![s] = [Idle EXCEPT !.seen = db.exists]]
    /\ UNCHANGED <<db, clock, outcomes, ai, ui, admin, hist>>

\* The header is written if the file was not seen; then the form is
\* submitted with text, the AI is called and new_data is built.
Build(s) ==
    /\ pc[s] = "checked"
    /\ clock < MaxClock
    /\ \E stars \in SliderValues, review_text \in ReviewTexts \ {""}, ai_result \in AIResults :
          local' = [local EXCEPT ![s].new_data =
                        NewData(stars, review_text, ai_result, clock + 1)]
    /\ clock' = clock + 1
    /\ db' = IF local[s].seen THEN db ELSE to_csv([columns |-> DB_COLUMNS, rows |-> <<>>])
    /\ pc' = [pc EXCEPT ![s] = "built"]
    /\ UNCHANGED <<outcomes, ai, ui, admin, hist>>

\* existing_data = pd.read_csv(DB_FILE), or the exception of the save step.
Read(s) ==
    /\ pc[s] = "built"
    /\ \E io_ok \in BOOLEAN :
          IF io_ok
          THEN /\ local' = [local EXCEPT ![s].existing_data = read_csv(db)]
               /\ pc' = [pc EXCEPT ![s] = "read"]
          ELSE /\ local' = [local EXCEPT ![s].status = "save_error"]
               /\ pc' = [pc EXCEPT ![s] = "done"]
    /\ UNCHANGED <<db, clock, outcomes, ai, ui, admin, hist>>

\* updated_data.to_csv(DB_FILE) and the success message.
Write(s) ==
    /\ pc[s] = "read"
    /\ db' = SavedFile(local[s].existing_data, local[s].new_data, db)
    /\ local' = [local EXCEPT ![s].status = "success"]
    /\ pc' = [pc EXCEPT ![s] = "done"]
    /\ hist' = Append(hist, Saved(local[s].new_data.rows[1]["rating"].n,
                                  local[s].new_data.rows[1]["timestamp"].n))
    /\ UNCHANGED <<clock, outcomes, ai, ui, admin>>

------------------------------------------------------------------------------
(* The specifications.                                                     *)

InitRest ==
    /\ ui = NoRun
    /\ admin = NotShown
    /\ pc = [s \in Sessions |-> "idle"]
    /\ local = [s \in Sessions |-> Idle]
    /\ hist = <<>>

\* Interactions one at a time, from the first run on a machine without
\* reviews.csv.
Init ==
    /\ db = Absent
    /\ clock = 0
    /\ outcomes = NoOutcomes
    /\ ai = Pending
    /\ InitRest

Next == UserDashboard \/ AdminDashboard

Spec == Init /\ [][Next]_vars

\* process_review as a function of what the API does.
InitAI ==
    /\ db = Absent
    /\ clock = 0
    /\ outcomes \in OutcomeSeqs
    /\ ai = Pending
    /\ InitRest

NextAI == ProcessReviewCall

SpecAI == InitAI /\ [][NextAI]_vars

\* The stored tables the Admin Dashboard is applied to: up to MaxRows rows
\* as the submit handler writes them, any rating, the timestamps distinct
\* and in any order.
StoredRow(stars, t) ==
    <<ToString(stars), "Great app", "Late delivery", "Issue Refund", "We are sorry.",
      TimestampText(t)>>

InitAdmin ==
    /\ \E k \in 0..MaxRows :
          \E stars \in [1..k -> Ratings], times \in [1..k -> 1..MaxRows] :
              /\ \A i, j \in 1..k : i # j => times[i] # times[j]
              /\ db = [exists |-> TRUE, header |-> DB_COLUMNS,
                       rows |-> [i \in 1..k |-> StoredRow(stars[i], times[i])]]
    /\ clock = MaxClock
    /\ outcomes = NoOutcomes
    /\ ai = Pending
    /\ InitRest

NextAdmin == AdminDashboard

SpecAdmin == InitAdmin /\ [][NextAdmin]_vars

\* Two sessions whose steps interleave.
NextConc == \E s \in Sessions : Check(s) \/ Build(s) \/ Read(s) \/ Write(s)

SpecConc == Init /\ [][NextConc]_vars

------------------------------------------------------------------------------
(* Properties of process_review, checked under SpecAI.                     *)

Returned == ai.state = "returned"

\* The responses of the model on which the try block raises: text that is
\* no JSON document, and a JSON document that is no object.
RaisingTexts == {<<Prose>>, <<Prose, Ws>> \o Fenced(FullObj), Bare(PyList)}
Raises(o) == o.raises \/ o.text \in RaisingTexts

AllRaise == \A i \in 1..Len(MODEL_FALLBACK_LIST) : Raises(outcomes[i])

FallbackTriple ==
    [summary |-> PyStr("System Busy"),
     action |-> PyStr("Manual Review"),
     reply |-> PyStr("Thank you for your feedback! (AI currently overloaded)")]

\* C1: when the call of every identifier raises, process_review returns the
\* fixed fallback triple, with exactly the keys summary, action and reply.
C1_FallbackWhenAllRaise ==
    (Returned /\ AllRaise) =>
        /\ ai.result.ty = "dict"
        /\ DOMAIN ai.result.d = {"summary", "action", "reply"}
        /\ \A k \in {"summary", "action", "reply"} : ai.result.d[k] = FallbackTriple[k]

C1_Witness ==
    /\ Returned
    /\ outcomes[1].raises
    /\ outcomes[2].text = <<Prose>>
    /\ outcomes[3].text = Bare(PyList)
    /\ ai.result.d["summary"] = PyStr("System Busy")

\* The objects of the model that hold the three keys.
ThreeKeyObjects == {FullObj, NullSummaryObj, SelfNamedObj}
Wrappings(obj) == {Bare(obj), Fenced(obj), PlainFenced(obj)}
FirstAnswers(obj) == ~outcomes[1].raises /\ outcomes[1].text \in Wrappings(obj)

\* C2, as claimed: when the first identifier answers with a JSON object that
\* holds summary, action and reply, process_review returns that object with
\* nothing added or removed, and tries no later identifier.
C2_ReturnedUnmodified ==
    \A obj \in ThreeKeyObjects :
        (Returned /\ FirstAnswers(obj)) =>
            /\ ai.result = obj
            /\ ai.attempted = <<MODEL_FALLBACK_LIST[1]>>

\* C2, amended: the returned dict is that object with the key model_used set
\* to the first identifier, every other key and value as parsed, and no
\* later identifier is tried.
C2_ReturnedWithModelUsed ==
    \A obj \in ThreeKeyObjects :
        (Returned /\ FirstAnswers(obj)) =>
            /\ ai.result.ty = "dict"
            /\ DOMAIN ai.result.d = DOMAIN obj.d \cup {"model_used"}
            /\ \A k \in DOMAIN obj.d \ {"model_used"} : ai.result.d[k] = obj.d[k]
            /\ ai.result.d["model_used"] = PyStr(MODEL_FALLBACK_LIST[1])
            /\ ai.attempted = <<MODEL_FALLBACK_LIST[1]>>
            /\ ai.st_error = <<>>

C2_Witness ==
    /\ Returned
    /\ outcomes[1].text = Fenced(FullObj)
    /\ ~outcomes[2].raises
    /\ ai.result.d["summary"] = PyStr("Late delivery")

\* C5: whatever the API does, the returned object holds the three keys
\* summary, action and reply.
C5_WellFormedResult ==
    Returned =>
        /\ ai.result.ty = "dict"
        /\ {"summary", "action", "reply"} \subseteq DOMAIN ai.result.d

IsPrefixOf(a, b) == Len(a) <= Len(b) /\ a = SubSeq(b, 1, Len(a))

ErrorTypeOf(o) ==
    CASE o.raises -> "GenerationError"
      [] o.text = Bare(PyList) -> "TypeError"
      [] OTHER -> "JSONDecodeError"

\* C10: the identifiers are tried in the order of MODEL_FALLBACK_LIST, each
\* at most once; the k-th is tried exactly when all before it failed; the
\* call returns at the first success, naming that identifier; and when all
\* fail the one error shown is the error of the last identifier.
C10_OrderedSingleAttempts ==
    Returned =>
        LET n == Len(MODEL_FALLBACK_LIST)
            tried == Len(ai.attempted)
        IN  /\ IsPrefixOf(ai.attempted, MODEL_FALLBACK_LIST)
            /\ \A k \in 1..n :
                  (k <= tried) <=> (\A j \in 1..(k - 1) : Raises(outcomes[j]))
            /\ ~AllRaise =>
                  /\ ~Raises(outcomes[tried])
                  /\ ai.result.d["model_used"] = PyStr(MODEL_FALLBACK_LIST[tried])
                  /\ ai.st_error = <<>>
            /\ AllRaise =>
                  /\ tried = n
                  /\ ai.st_error = <<[type |-> ErrorTypeOf(outcomes[n]), at |-> n]>>

C10_Witness ==
    /\ Returned
    /\ outcomes[1].raises
    /\ outcomes[2].text = <<Prose>>
    /\ outcomes[3].text = Bare(FullObj)
    /\ Len(ai.attempted) = 3

------------------------------------------------------------------------------
(* Properties of the store under interactions one at a time (Spec).        *)

Built == ui.status \in {"success", "save_error"}

\* C3: the record built by the User Dashboard has its six fields present
\* and none of them null.
C3_AllFieldsPopulated ==
    Built =>
        \A j \in 1..Len(DB_COLUMNS) :
            /\ DB_COLUMNS[j] \in DOMAIN ui.new_data.rows[1]
            /\ ui.new_data.rows[1][DB_COLUMNS[j]].ty \notin {"None", "NaN"}

\* C4: from the first run on, the table read from the store has the header
\* rating,review,summary,action,reply,timestamp and one row for each
\* submission with text whose save succeeded, in the order of submission;
\* a run without a submission, with empty text or with a failed save adds
\* no row.
C4_RowsInSubmissionOrder ==
    db.exists =>
        LET df == read_csv(db)
        IN  /\ db.header = <<"rating", "review", "summary", "action", "reply", "timestamp">>
            /\ df.columns = db.header
            /\ Len(df.rows) = Len(hist)
            /\ \A i \in 1..Len(hist) :
                  /\ df.rows[i]["rating"] = CInt(hist[i].rating)
                  /\ df.rows[i]["timestamp"] = CStr(TimestampText(hist[i].timestamp))
                  /\ db.rows[i][2] # ""

C4_Witness ==
    /\ Len(hist) = 2
    /\ Len(db.rows) = 2
    /\ clock = 3
    /\ hist[1].rating = RATING_MAX
    /\ hist[2].rating = RATING_MIN
    /\ db.rows[1][3] = "System Busy"
    /\ db.rows[2][3] = "Late delivery"
    /\ ui = NoRun

\* C7: no run of the script edits, reorders or deletes a stored row: the
\* rows of the file before the run are a prefix of its rows after it, and
\* a run that saves nothing leaves an existing file as it is.
C7_AppendOnly ==
    [][db.exists =>
          /\ IsPrefixOf(db.rows, db'.rows)
          /\ (hist' = hist => db' = db)]_vars

------------------------------------------------------------------------------
(* The Admin Dashboard on any stored table (SpecAdmin).                    *)

Shown == admin.status = "shown"

InstantOfField(x) == CHOOSE t \in Instants : x = "2025-01-01 10:00:0" \o ToString(t)
RatingOfField(x) == CHOOSE n \in Ratings : ToString(n) = x

\* C8: the feed shows every stored record once, newest first: the
\* timestamps of the expanders, top to bottom, strictly decrease.
C8_FeedNewestFirst ==
    Shown =>
        LET n == Len(db.rows)
        IN  /\ Len(admin.feed) = n
            /\ \A i \in 1..n : \E k \in 1..n : admin.feed[k].index = i
            /\ \A k \in 1..n :
                  /\ admin.feed[k].index \in 1..n
                  /\ admin.feed[k].time = db.rows[admin.feed[k].index][6]
                  /\ admin.feed[k].review = db.rows[admin.feed[k].index][2]
            /\ \A k \in 1..(n - 1) :
                  InstantOfField(admin.feed[k].time) > InstantOfField(admin.feed[k + 1].time)

C8_Witness ==
    /\ Shown
    /\ Len(db.rows) = 3
    /\ db.rows[1][6] = TimestampText(2)
    /\ db.rows[2][6] = TimestampText(3)
    /\ db.rows[3][6] = TimestampText(1)
    /\ admin.feed[1].index = 2
    /\ admin.feed[2].index = 1
    /\ admin.feed[3].index = 3

RECURSIVE SumOfFields(_, _)
SumOfFields(rows, n) ==
    IF n = 0 THEN 0 ELSE RatingOfField(rows[n][1]) + SumOfFields(rows, n - 1)

\* C9: total is the number of stored rows, the negative count is the number
\* of rows rated below 3, the average is the sum of the ratings over the
\* number of rows; on the empty table the average and the negative count
\* are 0 and the empty-state message is shown instead of the feed.
C9_Metrics ==
    Shown =>
        LET n == Len(db.rows)
        IN  /\ admin.total = n
            /\ admin.negative =
                  Cardinality({i \in 1..n : RatingOfField(db.rows[i][1]) \in {1, 2}})
            /\ n > 0 => /\ admin.avg.den > 0
                        /\ admin.avg.num * n = SumOfFields(db.rows, n) * admin.avg.den
                        /\ ~admin.info
            /\ n = 0 => /\ admin.avg.num = 0
                        /\ admin.negative = 0
                        /\ admin.info
                        /\ admin.feed = <<>>

C9_Witness ==
    /\ Shown
    /\ Len(db.rows) = 3
    /\ db.rows[1][1] = "5"
    /\ db.rows[2][1] = "1"
    /\ db.rows[3][1] = "3"
    /\ admin.total = 3
    /\ admin.avg = [num |-> 9, den |-> 3]
    /\ admin.negative = 1

------------------------------------------------------------------------------
(* Two sessions submitting at once (SpecConc).                             *)

Succeeded(s) == pc[s] = "done" /\ local[s].status = "success"

\* C6: the save step is an unprotected read-modify-write.  Two submissions
\* that both end with the success message, having read the same table,
\* leave that table plus one row: the row of the session that wrote last.
C6_LostUpdate ==
    (Succeeded("A") /\ Succeeded("B")
        /\ local["A"].existing_data = local["B"].existing_data) =>
        /\ Len(db.rows) = Len(local["A"].existing_data.rows) + 1
        /\ \E s \in Sessions :
              db.rows[Len(db.rows)][6] = CellText(local[s].new_data.rows[1]["timestamp"])

C6_Witness ==
    /\ Succeeded("A")
    /\ Succeeded("B")
    /\ local["A"].existing_data = local["B"].existing_data
    /\ Len(hist) = 2
    /\ Len(db.rows) = 1
    /\ db.rows[1][6] = CellText(local["A"].new_data.rows[1]["timestamp"])

====
